---- MODULE Spec2Model ----
(***************************************************************************)
(* A model of flax/nnx/nnx/filterlib.py (the filter predicate algebra) and *)
(* of get_glove_embeddings in examples/sst2/input_pipeline.py.             *)
(*                                                                         *)
(* Python objects live on a heap: a sequence of records, the address of an *)
(* object being its index.  A filter literal is a tree; a callable literal *)
(* is a reference to a predicate object already on the heap.               *)
(***************************************************************************)
EXTENDS Naturals, Sequences, FiniteSets

VARIABLES heap, last, cache, ret

vars == <<heap, last, cache, ret>>

(***************************************************************************)
(* Bounds of the model.                                                    *)
(***************************************************************************)
\* a list/tuple literal, or an argument list, has at most MaxLen elements
MaxLen == 2
\* the GloVe file has at most MaxLines lines
MaxLines == 2

(***************************************************************************)
(* The alphabets the inputs are drawn from.                                *)
(***************************************************************************)
Tags == {"a", "b"}
\* the classes of the test hierarchy: B is a subclass of A, C is unrelated
Classes == {"A", "B", "C"}
Keys == {"dense", "bias"}
NoAttr == "<no attribute>"

\* issubclass(c, d) on the test hierarchy
IsSubclass(c, d) == (c = d) \/ (c = "B" /\ d = "A")

(***************************************************************************)
(* Filter literals (filterlib.py:27-28).  Every literal is a record of the *)
(* same shape: k is the literal's Python type, s its payload, r the heap   *)
(* address of a callable, items the elements of a list or tuple.           *)
(***************************************************************************)
Lit(k, s, r, items) == [k |-> k, s |-> s, r |-> r, items |-> items]
StrLit(t) == Lit("str", t, 0, <<>>)
TypeLit(c) == Lit("type", c, 0, <<>>)
BoolLit(b) == Lit("bool", b, 0, <<>>)
EllipsisLit == Lit("ellipsis", "...", 0, <<>>)
NoneLit == Lit("NoneType", "None", 0, <<>>)
CallableLit(a) == Lit("callable", "", a, <<>>)
ListLit(items) == Lit("list", "", 0, items)
TupleLit(items) == Lit("tuple", "", 0, items)
IntLit(n) == Lit("int", n, 0, <<>>)
FloatLit(x) == Lit("float", x, 0, <<>>)
DictLit == Lit("dict", "{}", 0, <<>>)

\* the isinstance / callable tests of to_predicate, as Python decides them
IsStr(f) == f.k = "str"
IsType(f) == f.k = "type"
IsBool(f) == f.k = "bool"
IsEllipsis(f) == f.k = "ellipsis"
IsNone(f) == f.k = "NoneType"
\* a class is callable too (calling it constructs an instance)
IsCallable(f) == f.k \in {"callable", "type"}
IsListOrTuple(f) == f.k \in {"list", "tuple"}

(***************************************************************************)
(* Predicate objects.  cls is the object's class, arg the parameter of an  *)
(* atomic predicate (tag, type, key), subs the addresses held in           *)
(* self.predicates (Any, All) or self.predicate (Not).                     *)
(***************************************************************************)
Obj(cls, arg, subs) == [cls |-> cls, arg |-> arg, subs |-> subs]
WithTag(tag) == Obj("WithTag", tag, <<>>)
OfType(type) == Obj("OfType", type, <<>>)
PathContains(key) == Obj("PathContains", key, <<>>)
Everything == Obj("Everything", "", <<>>)
Nothing == Obj("Nothing", "", <<>>)

\* the result of a call: the heap after it, the exception raised ("" when
\* none), the address returned, and the value the exception message shows
Ok(h, a) == [heap |-> h, exc |-> "", res |-> a, shown |-> ""]
Raise(h, exc, shown) == [heap |-> h, exc |-> exc, res |-> 0, shown |-> shown]
Alloc(h, o) == Ok(Append(h, o), Len(h) + 1)

(***************************************************************************)
(* to_predicate (filterlib.py:40-63) and the combinators' constructors.    *)
(***************************************************************************)
\* format(value, spec) as the f-string of line 63 calls it: int and float
\* parse the specification and reject "!r" with a ValueError; a type with
\* no __format__ of its own falls to object.__format__, which raises
\* TypeError on any non-empty specification and names only the type
Format(f, spec) ==
  IF spec = "" THEN [exc |-> "", text |-> f.s]
  ELSE IF f.k \in {"int", "float"} THEN [exc |-> "ValueError", text |-> ""]
  ELSE [exc |-> "TypeError", text |-> ""]

\* line 63: raise TypeError(f'Invalid collection filter: {filter:!r}. ')
\* ("!r" after the colon is a format specification, not a conversion)
RaiseInvalidFilter(h, f) ==
  LET fm == Format(f, "!r")
  IN IF fm.exc # "" THEN Raise(h, fm.exc, fm.text)
     ELSE Raise(h, "TypeError", fm.text)

RECURSIVE ToPredicate(_, _)
RECURSIVE ToPredicates(_, _)

\* Any.__init__ / All.__init__ (lines 102-105, 121-124): cls(*filters)
CombinatorInit(cls, h, filters) ==
  LET n == ToPredicates(h, filters)
  IN IF n.exc # "" THEN Raise(h, n.exc, n.shown)
     ELSE Alloc(n.heap, Obj(cls, "", n.addrs))

AnyInit(h, filters) == CombinatorInit("Any", h, filters)

AllInit(h, filters) == CombinatorInit("All", h, filters)

\* Not.__init__ (lines 140-141)
NotInit(h, f) ==
  LET n == ToPredicate(h, f)
  IN IF n.exc # "" THEN Raise(h, n.exc, n.shown)
     ELSE Alloc(n.heap, Obj("Not", "", <<n.res>>))

\* to_predicate with the callable test moved before the type test
ToPredicateCallableFirst(h, f) ==
  IF IsStr(f) THEN Alloc(h, WithTag(f.s))
  ELSE IF IsCallable(f) THEN Ok(h, f.r)
  ELSE IF IsType(f) THEN Alloc(h, OfType(f.s))
  ELSE IF IsBool(f) THEN
    (IF f.s = "True" THEN Alloc(h, Everything) ELSE Alloc(h, Nothing))
  ELSE IF IsEllipsis(f) THEN Alloc(h, Everything)
  ELSE IF IsNone(f) THEN Alloc(h, Nothing)
  ELSE IF IsListOrTuple(f) THEN AnyInit(h, f.items)
  ELSE RaiseInvalidFilter(h, f)

\* the isinstance chain of lines 45-63, in the source's order
ToPredicate(h, f) ==
  IF IsStr(f) THEN Alloc(h, WithTag(f.s))
  ELSE IF IsType(f) THEN Alloc(h, OfType(f.s))
  ELSE IF IsBool(f) THEN
    (IF f.s = "True" THEN Alloc(h, Everything) ELSE Alloc(h, Nothing))
  ELSE IF IsEllipsis(f) THEN Alloc(h, Everything)
  ELSE IF IsNone(f) THEN Alloc(h, Nothing)
  ELSE IF IsCallable(f) THEN Ok(h, f.r)
  ELSE IF IsListOrTuple(f) THEN AnyInit(h, f.items)
  ELSE RaiseInvalidFilter(h, f)

\* tuple(to_predicate(collection_filter) for collection_filter in filters):
\* left to right, the first exception ends the iteration
ToPredicates(h, fs) ==
  IF fs = <<>> THEN [heap |-> h, exc |-> "", shown |-> "", addrs |-> <<>>]
  ELSE LET first == ToPredicate(h, Head(fs))
       IN IF first.exc # ""
          THEN [heap |-> h, exc |-> first.exc, shown |-> first.shown,
                addrs |-> <<>>]
          ELSE LET rest == ToPredicates(first.heap, Tail(fs))
               IN [heap |-> rest.heap, exc |-> rest.exc, shown |-> rest.shown,
                   addrs |-> IF rest.exc # "" THEN <<>>
                             ELSE <<first.res>> \o rest.addrs]

(***************************************************************************)
(* __call__: a predicate applied to (path, x).  A value x is a record of   *)
(* its class and its optional tag and type attributes (NoAttr: absent).    *)
(* The result is the exception raised ("" when none) and the value.        *)
(***************************************************************************)
Val(cls, tag, type) == [cls |-> cls, tag |-> tag, type |-> type]
\* isinstance(x, _HasTag), isinstance(x, _HasType): the attribute is there
HasTag(x) == x.tag # NoAttr
HasType(x) == x.type # NoAttr

Returns(b) == [exc |-> "", val |-> b]
Throws(e) == [exc |-> e, val |-> FALSE]
\* x.tag == t: the attribute access raises when the attribute is absent
TagEquals(x, t) ==
  IF x.tag = NoAttr THEN Throws("AttributeError") ELSE Returns(x.tag = t)

\* issubclass(x.type, c), with the same attribute access
TypeIsSubclass(x, c) ==
  IF x.type = NoAttr THEN Throws("AttributeError")
  ELSE Returns(IsSubclass(x.type, c))

\* WithTag.__call__ without the isinstance(x, _HasTag) guard
WithTagCallUnguarded(o, path, x) == TagEquals(x, o.arg)

\* WithTag.__call__ (lines 70-71)
WithTagCall(o, path, x) ==
  IF ~HasTag(x) THEN Returns(FALSE) ELSE TagEquals(x, o.arg)

\* PathContains.__call__ (lines 81-82): self.key in path
PathContainsCall(o, path, x) ==
  Returns(\E i \in 1..Len(path) : path[i] = o.arg)

\* OfType.__call__ without the test of the value's type attribute
OfTypeCallInstanceOnly(o, path, x) == Returns(IsSubclass(x.cls, o.arg))

\* OfType.__call__ (lines 92-95)
OfTypeCall(o, path, x) ==
  IF IsSubclass(x.cls, o.arg) THEN Returns(TRUE)
  ELSE IF ~HasType(x) THEN Returns(FALSE)
  ELSE TypeIsSubclass(x, o.arg)

RECURSIVE Call(_, _, _, _)
RECURSIVE AnyOf(_, _, _, _)
RECURSIVE AllOf(_, _, _, _)

\* Any.__call__ with all() in the place of any()
AnyOfAsAll(h, subs, path, x) == AllOf(h, subs, path, x)

\* any(predicate(path, x) for predicate in self.predicates) (line 108)
AnyOf(h, subs, path, x) ==
  IF subs = <<>> THEN Returns(FALSE)
  ELSE LET r == Call(h, Head(subs), path, x)
       IN IF r.exc # "" \/ r.val THEN r ELSE AnyOf(h, Tail(subs), path, x)

\* all(predicate(path, x) for predicate in self.predicates) (line 127)
AllOf(h, subs, path, x) ==
  IF subs = <<>> THEN Returns(TRUE)
  ELSE LET r == Call(h, Head(subs), path, x)
       IN IF r.exc # "" \/ ~r.val THEN r ELSE AllOf(h, Tail(subs), path, x)

\* Not.__call__ without the negation
NotOfForgotten(r) == r

\* Not.__call__ (lines 143-144)
NotOf(r) == IF r.exc # "" THEN r ELSE Returns(~r.val)

\* predicate(path, x) for the predicate object at address a
Call(h, a, path, x) ==
  LET o == h[a]
  IN IF o.cls = "WithTag" THEN WithTagCall(o, path, x)
     ELSE IF o.cls = "PathContains" THEN PathContainsCall(o, path, x)
     ELSE IF o.cls = "OfType" THEN OfTypeCall(o, path, x)
     ELSE IF o.cls = "Any" THEN AnyOf(h, o.subs, path, x)
     ELSE IF o.cls = "All" THEN AllOf(h, o.subs, path, x)
     ELSE IF o.cls = "Not" THEN NotOf(Call(h, o.subs[1], path, x))
     ELSE IF o.cls = "Everything" THEN Returns(TRUE)
     ELSE Returns(FALSE)

(***************************************************************************)
(* __eq__, __hash__ and __repr__.  A hash value and a repr are sequences   *)
(* of strings; hash is modelled without collisions between unequal         *)
(* strings, types and tuples.                                              *)
(***************************************************************************)
RECURSIVE PyEq(_, _, _)
RECURSIVE TupleEq(_, _, _)

\* tuple.__eq__: same length and each pair identical or equal
TupleEq(h, s, t) ==
  /\ Len(s) = Len(t)
  /\ \A i \in 1..Len(s) : s[i] = t[i] \/ PyEq(h, s[i], t[i])

\* __eq__ of Any and All without the isinstance test of the other's class
PyEqAnyClass(h, a, b) ==
  LET o == h[a]
      p == h[b]
  IN IF o.cls \in {"WithTag", "PathContains", "OfType"}
       THEN p.cls = o.cls /\ p.arg = o.arg
     ELSE IF o.cls \in {"Any", "All"}
       THEN p.cls \in {"Any", "All"} /\ TupleEq(h, o.subs, p.subs)
     ELSE IF o.cls = "Not"
       THEN p.cls = "Not" /\ PyEq(h, o.subs[1], p.subs[1])
     ELSE p.cls = o.cls

\* a == b for the objects at addresses a and b:
\*   the dataclasses' generated __eq__ compares the fields of two objects of
\*   the same class (lines 66, 77, 88);  Any, All and Not compare the stored
\*   predicates of two objects of their class (lines 113-114, 132-133,
\*   149-150);  Everything and Nothing compare the class (163-164, 177-178)
PyEq(h, a, b) ==
  LET o == h[a]
      p == h[b]
  IN IF o.cls \in {"WithTag", "PathContains", "OfType"}
       THEN p.cls = o.cls /\ p.arg = o.arg
     ELSE IF o.cls \in {"Any", "All"}
       THEN p.cls = o.cls /\ TupleEq(h, o.subs, p.subs)
     ELSE IF o.cls = "Not"
       THEN p.cls = "Not" /\ PyEq(h, o.subs[1], p.subs[1])
     ELSE p.cls = o.cls

RECURSIVE PyHash(_, _)
RECURSIVE HashAll(_, _)

\* hash of a tuple of the given element hashes
HashTuple(hs) == <<"(">> \o hs \o <<")">>

HashAll(h, subs) ==
  IF subs = <<>> THEN <<>>
  ELSE PyHash(h, Head(subs)) \o <<",">> \o HashAll(h, Tail(subs))

\* hash(a): the dataclasses hash the tuple of their fields; Any and All
\* hash self.predicates (lines 116-117, 135-136); Not hashes self.predicate
\* (152-153); Everything and Nothing hash their class (166-167, 180-181)
PyHash(h, a) ==
  LET o == h[a]
  IN IF o.cls \in {"WithTag", "PathContains"}
       THEN HashTuple(<<"str", o.arg, ",">>)
     ELSE IF o.cls = "OfType" THEN HashTuple(<<"class", o.arg, ",">>)
     ELSE IF o.cls \in {"Any", "All"} THEN HashTuple(HashAll(h, o.subs))
     ELSE IF o.cls = "Not" THEN PyHash(h, o.subs[1])
     ELSE <<"class", o.cls>>

RECURSIVE PyRepr(_, _)
RECURSIVE ReprAll(_, _)

\* ", ".join(map(repr, self.predicates))
ReprAll(h, subs) ==
  IF subs = <<>> THEN <<>>
  ELSE IF Len(subs) = 1 THEN PyRepr(h, subs[1])
  ELSE PyRepr(h, Head(subs)) \o <<", ">> \o ReprAll(h, Tail(subs))

\* repr(a) (lines 73-74, 84-85, 97-98, 110-111, 129-130, 146-147, 160, 174)
PyRepr(h, a) ==
  LET o == h[a]
  IN IF o.cls \in {"WithTag", "PathContains"}
       THEN <<o.cls, "(", "'", o.arg, "'", ")">>
     ELSE IF o.cls = "OfType" THEN <<"OfType(", "<class '", o.arg, "'>", ")">>
     ELSE IF o.cls \in {"Any", "All"}
       THEN <<o.cls, "(">> \o ReprAll(h, o.subs) \o <<")">>
     ELSE IF o.cls = "Not" THEN <<"Not(">> \o PyRepr(h, o.subs[1]) \o <<")">>
     ELSE <<o.cls, "()">>

\* p.<attribute> = value.  The atomic predicates are dataclasses declared
\* frozen=True (lines 66, 77, 88): their __setattr__ raises
\* FrozenInstanceError.  Any, All and Not are plain classes (lines 101, 120,
\* 139) whose instances accept the assignment of self.predicates and
\* self.predicate; Everything and Nothing (156, 170) hold no parameter.
\* value is the tuple of addresses assigned
SetAttr(h, a, value) ==
  IF h[a].cls \in {"WithTag", "PathContains", "OfType"}
    THEN Raise(h, "FrozenInstanceError", "")
  ELSE IF h[a].cls \in {"Any", "All", "Not"}
    THEN Ok([h EXCEPT ![a].subs = value], a)
  ELSE Ok(h, a)

(***************************************************************************)
(* get_glove_embeddings (input_pipeline.py:79-142).  A vocabulary is an    *)
(* OrderedDict: its keys in insertion order and the id of each key.  A     *)
(* vector is named by where it comes from: <<"uniform", i>> is the random  *)
(* vector drawn for special token i, <<"zeros", 0>> the padding vector,    *)
(* <<"glove", i>> the values parsed from line i of the GloVe file.  The    *)
(* GloVe file is the sequence of the tokens its lines start with.          *)
(***************************************************************************)
\* the default of the parameter specials (line 83)
Specials == <<"<pad>", "<unk>", "<s>", "</s>">>

EmptyDict == [keys |-> <<>>, ids |-> [t \in {} |-> 0]]

\* vocab[token] = id on an OrderedDict: a new key goes to the end, a key
\* that is there keeps its place and takes the new value
DictSet(d, token, id) ==
  [keys |-> IF token \in DOMAIN d.ids THEN d.keys ELSE Append(d.keys, token),
   ids |-> [t \in DOMAIN d.ids \cup {token} |->
              IF t = token THEN id ELSE d.ids[t]]]

\* save_vocab (lines 49-54): one line per key, in the dictionary's order
SaveVocab(vocab) == vocab.keys

\* load_vocab (lines 57-63): the id of a token is the number of its line
RECURSIVE LoadLines(_, _, _)
LoadLines(lines, i, vocab) ==
  IF i > Len(lines) THEN vocab
  ELSE LoadLines(lines, i + 1, DictSet(vocab, lines[i], i - 1))

LoadVocab(lines) == LoadLines(lines, 1, EmptyDict)

\* the loop over specials (lines 118-120)
RECURSIVE AddSpecials(_, _, _)
AddSpecials(i, vocab, vectors) ==
  IF i > Len(Specials) THEN [vocab |-> vocab, vectors |-> vectors]
  ELSE AddSpecials(i + 1, DictSet(vocab, Specials[i], Len(vocab.keys)),
                   Append(vectors, <<"uniform", i>>))

\* the loop over the lines of the GloVe file (lines 125-131)
RECURSIVE AddGlove(_, _, _, _, _)
AddGlove(glove, sst_tokens, i, vocab, vectors) ==
  IF i > Len(glove) THEN [vocab |-> vocab, vectors |-> vectors]
  ELSE IF glove[i] \in sst_tokens
    THEN AddGlove(glove, sst_tokens, i + 1,
                  DictSet(vocab, glove[i], Len(vocab.keys)),
                  Append(vectors, <<"glove", i>>))
  ELSE AddGlove(glove, sst_tokens, i + 1, vocab, vectors)

NoFile == [present |-> FALSE, data |-> <<>>]
File(data) == [present |-> TRUE, data |-> data]
\* the cache directory: whether it exists, and vocab.txt and embed.npz in it
NoCache == [exists |-> FALSE, vocab |-> NoFile, embed |-> NoFile]

\* lines 112-142: the vocabulary and the embedding matrix returned, and the
\* cache directory afterwards
GetGloveEmbeddings(sst_tokens, glove, cache_dir, dir) ==
  LET s == AddSpecials(1, EmptyDict, <<>>)
      padded == [s.vectors EXCEPT ![1] = <<"zeros", 0>>]
      g == AddGlove(glove, sst_tokens, 1, s.vocab, padded)
      embed == g.vectors
  IN [vocab |-> g.vocab,
      embed |-> embed,
      dir |-> IF cache_dir = "None" THEN dir
              ELSE [exists |-> TRUE, vocab |-> File(SaveVocab(g.vocab)),
                    embed |-> File(embed)]]

(***************************************************************************)
(* The inputs of a session.                                                *)
(***************************************************************************)
SeqsUpTo(S, n) == UNION {[1..k -> S] : k \in 0..n}

\* the literals that are no collection; a callable is a predicate object
\* that is on the heap already
ValidAtoms(h) ==
  {StrLit("a"), TypeLit("A"), TypeLit("B"), BoolLit("True"),
   BoolLit("False"), EllipsisLit, NoneLit} \cup {CallableLit(a) : a \in 1..Len(h)}
InvalidAtoms == {IntLit("1"), FloatLit("1.5"), DictLit}
Atoms(h) == ValidAtoms(h) \cup InvalidAtoms

Collections(S) ==
  {ListLit(q) : q \in SeqsUpTo(S, MaxLen)}
    \cup {TupleLit(q) : q \in SeqsUpTo(S, MaxLen)}

\* the elements of a nested collection, and of an argument list
Inner ==
  {StrLit("a"), BoolLit("True"), IntLit("1"), ListLit(<<>>),
   ListLit(<<StrLit("a")>>), TupleLit(<<StrLit("a")>>),
   ListLit(<<IntLit("1")>>)}

Filters(h) == Atoms(h) \cup Collections(Atoms(h)) \cup Collections(Inner)
ArgLists(h) == SeqsUpTo(Atoms(h) \cup Inner, MaxLen)

\* the tokens a line of the GloVe file starts with, and the token sets of
\* the datasets
GloveTokens == {"the", "cat", "<unk>"}
GloveFiles == SeqsUpTo(GloveTokens, MaxLines)
TokenSets == {{}, {"the"}, {"the", "cat"}, {"the", "<unk>"}}

Paths == {<<>>, <<"dense">>, <<"bias", "dense">>, <<"params", "dense", "kernel">>}

\* plain instances of A, B and C, and wrappers (of class C) that carry a tag
\* and a type attribute
Values ==
  {Val(c, NoAttr, NoAttr) : c \in Classes}
    \cup {Val("C", t, NoAttr) : t \in Tags}
    \cup {Val("C", NoAttr, c) : c \in Classes}
    \cup {Val("C", "a", "B"), Val("A", "b", "C")}

(***************************************************************************)
(* The state.  heap: the predicate objects; last: the last call, with its  *)
(* arguments, the heap it started from (h0) and its outcome.               *)
(***************************************************************************)
NoLit == Lit("", "", 0, <<>>)
NoVal == Val("", NoAttr, NoAttr)

NoCall ==
  [op |-> "none", f |-> NoLit, fs |-> <<>>, a |-> 0, b |-> 0, path |-> <<>>,
   x |-> NoVal, exc |-> "", res |-> 0, shown |-> "", val |-> FALSE,
   text |-> <<>>, h0 |-> <<>>]

\* cache: the cache directory; ret: the last call of get_glove_embeddings,
\* with its arguments, the cache directory it found and what it returned
NoRet ==
  [called |-> FALSE, sst_tokens |-> {}, glove |-> <<>>, cache_dir |-> "None",
   before |-> NoCache, vocab |-> EmptyDict, embed |-> <<>>]

Init ==
  /\ heap = <<>>
  /\ last = NoCall
  /\ cache = NoCache
  /\ ret = NoRet

\* an uncaught exception ends the session
Running == last.exc = ""

\* a predicate is built from literals once, in an empty session or after a
\* PathContains was constructed by hand
Fresh == Running /\ last.op \in {"none", "PathContains"}

\* the last call constructed or changed an object.  The calls below that
\* leave the heap alone are taken from such a state only: last holds one
\* call, so every state such a call can reach, it reaches from there
Built ==
  /\ Running
  /\ last.op \in {"PathContains", "to_predicate", "Any", "All", "Not", "setattr"}
  /\ last.f.k # "callable"

\* a constructor returned out, or raised
Construct(op, f, fs, out) ==
  /\ heap' = out.heap
  /\ last' = [NoCall EXCEPT !.op = op, !.f = f, !.fs = fs, !.exc = out.exc,
                            !.res = out.res, !.shown = out.shown,
                            !.h0 = heap]
  /\ UNCHANGED <<cache, ret>>

\* an operation on the object at a (and b) returned
Observe(op, a, b, path, x, exc, val, text) ==
  /\ last' = [NoCall EXCEPT !.op = op, !.a = a, !.b = b, !.path = path,
                            !.x = x, !.exc = exc, !.val = val, !.res = a,
                            !.text = text, !.h0 = heap]
  /\ UNCHANGED <<heap, cache, ret>>

\* PathContains(key)
PathContainsStep ==
  /\ Running /\ heap = <<>>
  /\ \E k \in Keys : Construct("PathContains", NoLit, <<>>, Alloc(heap, PathContains(k)))

\* to_predicate(f)
ToPredicateStep ==
  \/ /\ Fresh
     /\ \E f \in Filters(heap) : Construct("to_predicate", f, <<>>, ToPredicate(heap, f))
  \/ /\ Built
     /\ \E a \in 1..Len(heap) :
          Construct("to_predicate", CallableLit(a), <<>>, ToPredicate(heap, CallableLit(a)))

\* Any(*fs)
AnyStep ==
  /\ Fresh
  /\ \E fs \in ArgLists(heap) : Construct("Any", NoLit, fs, AnyInit(heap, fs))

\* All(*fs)
AllStep ==
  /\ Fresh
  /\ \E fs \in ArgLists(heap) : Construct("All", NoLit, fs, AllInit(heap, fs))

\* Not(f)
NotStep ==
  /\ Fresh
  /\ \E f \in Filters(heap) : Construct("Not", f, <<>>, NotInit(heap, f))

\* predicate(path, x)
CallStep ==
  /\ Built
  /\ \E a \in 1..Len(heap), path \in Paths, x \in Values :
       LET r == Call(heap, a, path, x)
       IN Observe("call", a, 0, path, x, r.exc, r.val, <<>>)

\* p == q
EqStep ==
  /\ Built
  /\ \E a \in 1..Len(heap), b \in 1..Len(heap) :
       Observe("eq", a, b, <<>>, NoVal, "", PyEq(heap, a, b), <<>>)

\* hash(p)
HashStep ==
  /\ Built
  /\ \E a \in 1..Len(heap) :
       Observe("hash", a, 0, <<>>, NoVal, "", FALSE, PyHash(heap, a))

\* repr(p)
ReprStep ==
  /\ Built
  /\ \E a \in 1..Len(heap) :
       Observe("repr", a, 0, <<>>, NoVal, "", FALSE, PyRepr(heap, a))

\* p.predicates = value, p.predicate = value, p.tag = value, ... on the
\* predicate the caller holds; value holds objects older than p
SetAttrStep ==
  /\ Built
  /\ last.res \in 1..Len(heap)
  /\ \E value \in {<<>>} \cup {<<b>> : b \in 1..Len(heap)} :
       /\ \A i \in 1..Len(value) : value[i] < last.res
       /\ heap[last.res].cls = "Not" => Len(value) = 1
       /\ Construct("setattr", NoLit, <<>>, SetAttr(heap, last.res, value))

\* get_glove_embeddings(datasets, glove_path, glove_dim, cache_dir=...)
GloveStep ==
  \E sst_tokens \in TokenSets, glove \in GloveFiles, cache_dir \in {"None", "cache"} :
    LET out == GetGloveEmbeddings(sst_tokens, glove, cache_dir, cache)
    IN /\ cache' = out.dir
       /\ ret' = [called |-> TRUE, sst_tokens |-> sst_tokens, glove |-> glove,
                  cache_dir |-> cache_dir, before |-> cache,
                  vocab |-> out.vocab, embed |-> out.embed]
       /\ UNCHANGED <<heap, last>>

Next ==
  \/ PathContainsStep
  \/ ToPredicateStep
  \/ AnyStep
  \/ AllStep
  \/ NotStep
  \/ CallStep
  \/ EqStep
  \/ HashStep
  \/ ReprStep

Spec == Init /\ [][Next]_vars

NextLife == Next \/ SetAttrStep

SpecLife == Init /\ [][NextLife]_vars

NextGlove == GloveStep

SpecGlove == Init /\ [][NextGlove]_vars

(***************************************************************************)
(* The claims about the filter library.                                    *)
(***************************************************************************)
Returned == last.exc = "" /\ last.res \in 1..Len(heap)

\* C1: to_predicate dispatches on the shape of the literal, in the order
\* str, type, bool, Ellipsis, None, callable: a string gives a new
\* WithTag(string), a type a new OfType(type) (never the type itself), True
\* and Ellipsis a new Everything(), False and None a new Nothing(); a
\* callable (a predicate that to_predicate returned before) is returned as
\* the same object, with no object created: to_predicate is idempotent.
C1_ToPredicateDispatch ==
  (last.op = "to_predicate" /\ ~IsListOrTuple(last.f)
     /\ last.f.k \notin {"int", "float", "dict"}) =>
    LET f == last.f
        r == last.res
        new(o) == r = Len(last.h0) + 1 /\ heap = Append(last.h0, o)
    IN /\ Returned
       /\ f.k = "str" => new([cls |-> "WithTag", arg |-> f.s, subs |-> <<>>])
       /\ f.k = "type" => new([cls |-> "OfType", arg |-> f.s, subs |-> <<>>])
       /\ (f.k = "bool" /\ f.s = "True") =>
            new([cls |-> "Everything", arg |-> "", subs |-> <<>>])
       /\ (f.k = "bool" /\ f.s = "False") =>
            new([cls |-> "Nothing", arg |-> "", subs |-> <<>>])
       /\ f.k = "ellipsis" =>
            new([cls |-> "Everything", arg |-> "", subs |-> <<>>])
       /\ f.k = "NoneType" =>
            new([cls |-> "Nothing", arg |-> "", subs |-> <<>>])
       /\ f.k = "callable" => r = f.r /\ heap = last.h0

\* the predicate to_predicate("a") returned is normalized again
C1_Witness ==
  /\ last.op = "to_predicate" /\ last.f.k = "callable"
  /\ heap = <<[cls |-> "WithTag", arg |-> "a", subs |-> <<>>]>>
  /\ last.res = 1

RECURSIVE FirstInvalid(_)
RECURSIVE FirstInvalidIn(_)
\* the repr of the first unsupported literal in f, in the order in which
\* normalization meets them ("" when there is none)
FirstInvalid(f) ==
  IF f.k \in {"int", "float", "dict"} THEN f.s
  ELSE IF f.k \in {"list", "tuple"} THEN FirstInvalidIn(f.items)
  ELSE ""

FirstInvalidIn(fs) ==
  IF fs = <<>> THEN ""
  ELSE IF FirstInvalid(Head(fs)) # "" THEN FirstInvalid(Head(fs))
  ELSE FirstInvalidIn(Tail(fs))

\* the unsupported literal the last constructor call was given, if any
Offending ==
  IF last.op \in {"Any", "All"} THEN FirstInvalidIn(last.fs)
  ELSE IF last.op \in {"to_predicate", "Not"} THEN FirstInvalid(last.f)
  ELSE ""

\* C2: normalizing an unsupported literal (an integer, say), at any depth
\* of a list or tuple or as an argument of Any, All or Not, raises TypeError
\* with a message that shows the offending value, and no predicate is
\* returned or created.
C2_InvalidFilterRaisesTypeError ==
  Offending # "" =>
    /\ last.exc = "TypeError"
    /\ last.shown = Offending
    /\ last.res = 0
    /\ heap = last.h0

\* C3: to_predicate([f1, f2]) and to_predicate((f1, f2)) are equal to
\* Any(to_predicate(f1), to_predicate(f2)) and are true on (path, x) exactly
\* when to_predicate(f1) or to_predicate(f2) is; an element that is itself a
\* collection becomes one nested Any, it is not flattened.
C3_CollectionIsAny ==
  (last.op = "to_predicate" /\ IsListOrTuple(last.f) /\ Returned
     /\ Len(last.f.items) = 2) =>
    LET f1 == last.f.items[1]
        f2 == last.f.items[2]
        r == last.res
        p1 == ToPredicate(heap, f1)
        p2 == ToPredicate(p1.heap, f2)
        q == AnyInit(p2.heap, <<CallableLit(p1.res), CallableLit(p2.res)>>)
        h == q.heap
    IN /\ p1.exc = "" /\ p2.exc = "" /\ q.exc = ""
       /\ PyEq(h, r, q.res) /\ PyEq(h, q.res, r)
       /\ \A path \in Paths, x \in Values :
            /\ Call(h, r, path, x).exc = ""
            /\ Call(h, r, path, x).val =
                 (Call(h, p1.res, path, x).val \/ Call(h, p2.res, path, x).val)
       /\ heap[r].cls = "Any" /\ Len(heap[r].subs) = 2
       /\ \A i \in 1..2 :
            IsListOrTuple(last.f.items[i]) =>
              /\ heap[heap[r].subs[i]].cls = "Any"
              /\ Len(heap[heap[r].subs[i]].subs) = Len(last.f.items[i].items)

\* to_predicate of a pair whose first element is a one-element list
C3_Witness ==
  /\ last.op = "to_predicate" /\ IsListOrTuple(last.f) /\ Returned
  /\ Len(last.f.items) = 2
  /\ last.f.items[1].k = "list" /\ Len(last.f.items[1].items) = 1
  /\ last.f.items[2].k = "str"

\* the combinator class that is not cls
OtherCombinator(cls) == IF cls = "Any" THEN "All" ELSE "Any"

\* p == q implies hash(p) == hash(q), for the objects of the heap
EqImpliesHashEq ==
  \A a \in 1..Len(heap), b \in 1..Len(heap) :
    PyEq(heap, a, b) => PyHash(heap, a) = PyHash(heap, b)

\* after Any(*fs) or All(*fs) returned r: a second instance built from the
\* same fs is equal and hash-equal to r, and an instance of the other
\* combinator, or a Not, built from the same fs is not equal to r
SameFiltersSameClass ==
  (last.op \in {"Any", "All"} /\ Returned) =>
    LET r == last.res
        same == CombinatorInit(last.op, heap, last.fs)
        other == CombinatorInit(OtherCombinator(last.op), same.heap, last.fs)
        h == other.heap
    IN /\ same.exc = "" /\ other.exc = ""
       /\ PyEq(h, r, same.res) /\ PyEq(h, same.res, r)
       /\ PyHash(h, r) = PyHash(h, same.res)
       /\ ~PyEq(h, r, other.res) /\ ~PyEq(h, other.res, r)
       /\ Len(last.fs) = 1 =>
            LET n == NotInit(h, last.fs[1])
            IN ~PyEq(n.heap, r, n.res) /\ ~PyEq(n.heap, n.res, r)

\* fs with the elements at i and j exchanged
Swap(fs, i, j) ==
  [k \in 1..Len(fs) |-> IF k = i THEN fs[j] ELSE IF k = j THEN fs[i] ELSE fs[k]]

\* after Any(*fs) or All(*fs) returned r: the instance built from fs with
\* the sub-filters at i and j exchanged is not equal to r
SwapBreaksEq(i, j) ==
  LET r == last.res
      swapped == CombinatorInit(last.op, heap, Swap(last.fs, i, j))
  IN ~PyEq(swapped.heap, r, swapped.res) /\ ~PyEq(swapped.heap, swapped.res, r)

\* C4 (as amended): equality and hashing are structural and consistent:
\* p == q implies hash(p) == hash(q); two Any (two All) built from equal
\* sub-filter sequences are equal and hash-equal; an Any is never equal to
\* an All or a Not with the same sub-filters; and exchanging two sub-filters
\* that normalize to unequal predicates makes the instances unequal.
C4_StructuralEqHash ==
  /\ EqImpliesHashEq
  /\ SameFiltersSameClass
  /\ (last.op \in {"Any", "All"} /\ Returned) =>
       \A i \in 1..Len(last.fs), j \in 1..Len(last.fs) :
         ~PyEq(heap, heap[last.res].subs[i], heap[last.res].subs[j]) =>
           SwapBreaksEq(i, j)

\* Any(f1, f2) or All(f1, f2) returned, f1 and f2 normalizing to unequal
\* predicates
C4_Witness ==
  /\ last.op \in {"Any", "All"} /\ Returned /\ Len(last.fs) = 2
  /\ ~PyEq(heap, heap[last.res].subs[1], heap[last.res].subs[2])

\* C4 (as claimed): the same, with every two distinct sub-filters: exchanging
\* two sub-filters that are distinct literals makes the instances unequal.
C4_DistinctLiteralsBreakEq ==
  /\ EqImpliesHashEq
  /\ SameFiltersSameClass
  /\ (last.op \in {"Any", "All"} /\ Returned) =>
       \A i \in 1..Len(last.fs), j \in 1..Len(last.fs) :
         last.fs[i] # last.fs[j] => SwapBreaksEq(i, j)

\* C5: Any is true on (path, x) iff some sub-predicate is, All iff every
\* sub-predicate is (so Any() is false and All() is true everywhere), Not
\* is the negation of its sub-predicate; and Not(Not(f)) agrees with
\* to_predicate(f) on every (path, x) without being equal to it.
C5_Combinators ==
  /\ last.op = "call" =>
       LET o == heap[last.a]
           sub(i) == Call(heap, o.subs[i], last.path, last.x).val
       IN /\ o.cls = "Any" =>
               last.exc = "" /\ last.val = (\E i \in 1..Len(o.subs) : sub(i))
          /\ o.cls = "All" =>
               last.exc = "" /\ last.val = (\A i \in 1..Len(o.subs) : sub(i))
          /\ (o.cls = "Any" /\ o.subs = <<>>) => last.val = FALSE
          /\ (o.cls = "All" /\ o.subs = <<>>) => last.val = TRUE
          /\ o.cls = "Not" => last.exc = "" /\ last.val = ~sub(1)
  /\ (last.op = "Not" /\ Returned) =>
       LET p == heap[last.res].subs[1]
           nn == NotInit(heap, CallableLit(last.res))
       IN /\ nn.exc = ""
          /\ \A path \in Paths, x \in Values :
               Call(nn.heap, nn.res, path, x) = Call(nn.heap, p, path, x)
          /\ ~PyEq(nn.heap, nn.res, p) /\ ~PyEq(nn.heap, p, nn.res)

\* a Not whose sub-predicate is false on (path, x) was called on it
C5_Witness ==
  /\ last.op = "call" /\ heap[last.a].cls = "Not"
  /\ ~Call(heap, heap[last.a].subs[1], last.path, last.x).val
  /\ last.val

\* C6: OfType(T) is true on x iff x is an instance of T or x has a type
\* attribute that is T or a subclass of T, whatever the path.
C6_OfType ==
  (last.op = "call" /\ heap[last.a].cls = "OfType") =>
    LET T == heap[last.a].arg
        x == last.x
        instance == x.cls = T \/ (x.cls = "B" /\ T = "A")
        wrapped == x.type # NoAttr /\ (x.type = T \/ (x.type = "B" /\ T = "A"))
    IN /\ last.exc = ""
       /\ last.val = (instance \/ wrapped)
       /\ \A path \in Paths : Call(heap, last.a, path, x) = Call(heap, last.a, last.path, x)

\* OfType(A) was called on a wrapper that is no instance of A and whose
\* type attribute is B, a subclass of A
C6_Witness ==
  /\ last.op = "call" /\ heap[last.a] = [cls |-> "OfType", arg |-> "A", subs |-> <<>>]
  /\ last.x.cls = "C" /\ last.x.type = "B"
  /\ last.val

\* C7: a predicate applied to (path, x) returns a boolean and raises
\* nothing: WithTag(t) is true exactly on the values whose tag is t (never
\* on a value without a tag), whatever the path; OfType(T) is false on a
\* value that is no instance of T and has no type attribute;
\* PathContains(k) is true iff k is an element of path, whatever the value.
C7_EvaluationNeverRaises ==
  last.op = "call" =>
    LET o == heap[last.a]
        x == last.x
    IN /\ last.exc = ""
       /\ last.val \in BOOLEAN
       /\ o.cls = "WithTag" =>
            /\ last.val = (x.tag # NoAttr /\ x.tag = o.arg)
            /\ \A path \in Paths : Call(heap, last.a, path, x).val = last.val
       /\ (o.cls = "OfType" /\ x.type = NoAttr /\ ~IsSubclass(x.cls, o.arg)) =>
            ~last.val
       /\ o.cls = "PathContains" =>
            /\ last.val = (o.arg \in {last.path[i] : i \in 1..Len(last.path)})
            /\ \A y \in Values : Call(heap, last.a, last.path, y).val = last.val

\* WithTag was called on a value that has no tag attribute
C7_Witness ==
  /\ last.op = "call" /\ heap[last.a].cls = "WithTag"
  /\ last.x.tag = NoAttr
  /\ last.exc = "" /\ ~last.val

\* C8: no operation changes a predicate that is constructed: after every
\* call (evaluation, ==, hash, repr, an attempted attribute assignment),
\* each object that was there before the call has the parameters, the
\* sub-predicates and the hash value it had.
C8_PredicatesImmutable ==
  \A a \in 1..Len(last.h0) :
    /\ a <= Len(heap)
    /\ heap[a] = last.h0[a]
    /\ PyHash(heap, a) = PyHash(last.h0, a)

(***************************************************************************)
(* The claims about get_glove_embeddings.                                  *)
(***************************************************************************)
\* C9: with a cache_dir, get_glove_embeddings saves the vocabulary and the
\* embeddings there when the directory holds none, and when it holds both
\* it returns what they hold and leaves the directory as it found it.
C9_CacheIsLoaded ==
  (ret.called /\ ret.cache_dir = "cache") =>
    IF ret.before.vocab.present /\ ret.before.embed.present
      THEN /\ ret.vocab = LoadVocab(ret.before.vocab.data)
           /\ ret.embed = ret.before.embed.data
           /\ cache = ret.before
      ELSE /\ cache.vocab = File(SaveVocab(ret.vocab))
           /\ cache.embed = File(ret.embed)

\* row is a vector read for token: the vector of the special token, or the
\* values of a line of the GloVe file that starts with token
IsVectorOf(token, row) ==
  \/ \E i \in 1..Len(Specials) :
       /\ Specials[i] = token
       /\ row = IF i = 1 THEN <<"zeros", 0>> ELSE <<"uniform", i>>
  \/ \E j \in 1..Len(ret.glove) : ret.glove[j] = token /\ row = <<"glove", j>>

\* C10: the vocabulary returned is aligned with the embedding matrix: the
\* special tokens have the ids 0..len(specials)-1 in order, the ids are
\* exactly 0..len(vocab)-1 without duplicates, the matrix has len(vocab)
\* rows, and row vocab[t] is the vector read for token t.
C10_VocabAlignedWithEmbed ==
  ret.called =>
    LET ids == ret.vocab.ids
        n == Len(ret.vocab.keys)
    IN /\ \A i \in 1..Len(Specials) : ids[Specials[i]] = i - 1
       /\ {ids[t] : t \in DOMAIN ids} = 0..(n - 1)
       /\ \A t \in DOMAIN ids, u \in DOMAIN ids : t # u => ids[t] # ids[u]
       /\ Len(ret.embed) = n
       /\ \A t \in DOMAIN ids :
            /\ ids[t] + 1 \in 1..Len(ret.embed)
            /\ IsVectorOf(t, ret.embed[ids[t] + 1])

====
